---- MODULE Spec2Model ----
(***************************************************************************)
(* Model of fair_renderer (src/src/main.rs): a command-line tool that      *)
(* turns a JSON export of career-fair employers into a vault of Markdown   *)
(* notes, using a template vault whose classes/company.md holds the        *)
(* fileClass schema.                                                       *)
(*                                                                         *)
(* Four specifications share this module:                                  *)
(*   Spec        one run of real_main/main, step by step, with the file    *)
(*               system of the output tree;                                *)
(*   SpecSchema  read_fileclass_yaml / clean_yaml_md_file on template      *)
(*               files drawn from bounded sets;                            *)
(*   SpecExtract the extraction loop of real_main on bounded documents;    *)
(*   SpecRender  the note rendering of real_main on bounded companies.     *)
(*                                                                         *)
(* Text is modelled as a sequence of pieces (strings); concatenation is    *)
(* \o and the empty string is the empty sequence.                          *)
(***************************************************************************)
EXTENDS Integers, Sequences, FiniteSets, TLC

VARIABLES
    \* ---- SpecSchema
    tpl0,        \* the template file first handed to read_fileclass_yaml
    tpl,         \* the template file of the current merge
    merged,      \* result of read_fileclass_yaml(tpl)
    merges,      \* number of merges completed
    spc          \* position: "idle" | "read" | "done"

schemaVars == <<tpl0, tpl, merged, merges, spc>>

VARIABLES
    \* ---- the inputs of one run (never changed by it)
    argv,           \* std::env::args().skip(1)
    input_file,     \* the file at the input path
    template_file,  \* classes/company.md of the template
    out_preexists,  \* whether the output path exists before the run
    \* ---- real_main's locals
    pc,             \* position in main/real_main
    cli_args,       \* CliArgs
    companies,      \* Vec<CompanyEntry>
    idx,            \* index of the loop in progress (0-based)
    user_fields,    \* field names read from the fileClass
    new_fileclass,  \* the updated fileClass text
    \* ---- the world
    fs,             \* the output tree
    writes,         \* every fs::write of a note attempted, in order
    stdout,         \* lines printed
    result,         \* what real_main returned
    exit_code       \* exit status of the process (-1 while running)

inputVars == <<argv, input_file, template_file, out_preexists>>
runVars == <<pc, cli_args, companies, idx, user_fields, new_fileclass,
             fs, writes, stdout, result, exit_code>>

vars == <<schemaVars, inputVars, runVars>>

\* ------------------------------------------------------------------ bounds

MaxBytes == 4
MaxFields == 2
MaxOrder == 2
MaxMerges == 2
MaxResults == 2
MaxEntries == 2
MaxUserFields == 2

\* ----------------------------------------------------------------- helpers

SeqsUpTo(S, n) == UNION {[1..k -> S] : k \in 0..n}

Range(s) == {s[k] : k \in 1..Len(s)}

NoDup(s) == \A a, b \in 1..Len(s) : s[a] = s[b] => a = b

\* A String as text: the empty string contributes nothing to a concatenation.
Str(s) == IF s = "" THEN <<>> ELSE <<s>>

\* ------------------------------------------------------------ bytes, files

LF == "\n"
CR == "\r"
Dash == "-"
\* "Y" stands for the whole run of bytes of a YAML body (valid UTF-8, neither
\* starting with a line break nor ending with '-'); "0xFF" is a byte that is
\* not valid UTF-8.
Body == "Y"
BadByte == "0xFF"
Byte == {Dash, LF, CR, Body, BadByte}

\* ------------------------------------------------- clean_yaml_md_file (294-310)

\* while bytes.len() > 1 && bytes[0] != b'\r' && bytes[0] != b'\n' { bytes = &bytes[1..] }
RECURSIVE SkipFirstLine(_)
SkipFirstLine(b) ==
    IF Len(b) > 1 /\ b[1] # CR /\ b[1] # LF THEN SkipFirstLine(Tail(b)) ELSE b

\* while bytes.len() > 1 && bytes[bytes.len() - 1] == b'-' { bytes = &bytes[..n] }
RECURSIVE StripTrailingDashes(_)
StripTrailingDashes(b) ==
    IF Len(b) > 1 /\ b[Len(b)] = Dash
    THEN StripTrailingDashes(SubSeq(b, 1, Len(b) - 1))
    ELSE b

Panicked == [ok |-> FALSE, bytes |-> <<>>]

\* The slice &bytes[1..] panics when bytes is empty, and bytes[0] panics when
\* the slice left is empty: both are out-of-bounds accesses.
clean_yaml_md_file(bytes) ==
    LET b1 == SkipFirstLine(bytes) IN
    IF Len(b1) < 1 THEN Panicked
    ELSE LET b2 == Tail(b1) IN
         IF Len(b2) < 1 THEN Panicked
         ELSE LET b3 == IF b2[1] = LF THEN Tail(b2) ELSE b2 IN
              [ok |-> TRUE, bytes |-> StripTrailingDashes(b3)]

\* ------------------------------------------------------------- YAML values

\* std::str::from_utf8
ValidUtf8(b) == BadByte \notin Range(b)

\* An id is six bytes; the tool's base id is b"abcdef" (261, 275).
IdBase == <<97, 98, 99, 100, 101, 102>>
\* id[0] += 1 on a u8
IdBump(id) == [id EXCEPT ![1] = (@ + 1) % 256]
RECURSIVE IdAfter(_)
IdAfter(k) == IF k = 0 THEN IdBase ELSE IdBump(IdAfter(k - 1))

field_strings ==
    <<"location", "majors", "job_titles", "job_types", "school_years",
      "international", "sessions", "website">>

\* A field descriptor of the template. wf says what the element of `fields`
\* is: "ok" a mapping with a string name, "noname" a mapping without name,
\* "nameint" a mapping whose name is not a string, "nothash" no mapping.
TemplateIds == {IdBase, IdBump(IdBase), <<122, 98, 99, 100, 101, 102>>}
Descriptor(wf, name, id) ==
    [wf |-> wf, name |-> name, type |-> "Select", options |-> <<"opt">>,
     path |-> "p", id |-> id]
Descriptors ==
    {Descriptor("ok", n, id) : n \in {"status", "location"}, id \in TemplateIds}
    \cup {Descriptor(w, "status", <<122, 98, 99, 100, 101, 102>>) :
            w \in {"noname", "nameint", "nothash"}}

\* A node under a key of the top-level mapping: absent, a sequence, or
\* something else.
Node(kind, items) == [kind |-> kind, items |-> items]
YamlDoc(top, fields, order) == [top |-> top, fields |-> fields, fieldsOrder |-> order]

FieldNodes ==
    {Node("seq", s) : s \in SeqsUpTo(Descriptors, MaxFields)}
    \cup {Node("absent", <<>>), Node("other", <<>>)}
OrderNodes ==
    {Node("seq", s) : s \in SeqsUpTo(TemplateIds, MaxOrder)}
    \cup {Node("absent", <<>>), Node("other", <<>>)}

\* What YamlLoader::load_from_str yields for the bytes of a Body: a scan
\* error, a document that is no mapping, or a mapping.
YamlDocs ==
    {YamlDoc("hash", f, o) : f \in FieldNodes, o \in OrderNodes}
    \cup {YamlDoc(t, Node("absent", <<>>), Node("absent", <<>>)) :
            t \in {"scanerr", "scalar"}}

EmptyDoc == YamlDoc("nodocs", Node("absent", <<>>), Node("absent", <<>>))
BrokenDoc == YamlDoc("scanerr", Node("absent", <<>>), Node("absent", <<>>))

\* A file of the template: its bytes, and the YAML value of its Body.
File(bytes, yaml) == [bytes |-> bytes, yaml |-> yaml]

\* YamlLoader::load_from_str on the cleaned text (246): no document when only
\* line breaks are left, the Body's value when the Body stands alone between
\* line breaks; text with other bytes around the Body does not load as the
\* mapping.
load_from_str(text, yaml) ==
    LET rest == SelectSeq(text, LAMBDA c : c \notin {LF, CR}) IN
    IF rest = <<>> THEN EmptyDoc
    ELSE IF rest = <<Body>> THEN yaml
    ELSE BrokenDoc

\* ------------------------------------------------ read_fileclass_yaml (244-291)

None == [tag |-> "none", field_names |-> <<>>, fileclass |-> File(<<>>, EmptyDoc)]
Panic == [tag |-> "panic", field_names |-> <<>>, fileclass |-> File(<<>>, EmptyDoc)]
Some(names, text) == [tag |-> "some", field_names |-> names, fileclass |-> text]

\* field.as_hash()?.get("name")?.as_str()? (254)
NameOk(field) == field.wf = "ok"

\* The descriptor pushed for the k-th (0-based) fixed field (264-272).
NewDescriptor(k) ==
    [wf |-> "ok", name |-> field_strings[k + 1], type |-> "Input",
     options |-> <<>>, path |-> "", id |-> IdAfter(k)]

\* for st in field_strings { ... fields.push(Yaml::Hash(hash)) } (263-273)
AppendFields(items) ==
    items \o [k \in 1..Len(field_strings) |-> NewDescriptor(k - 1)]

\* AppendOrder without `id[0] += 1`: every entry pushed is the base id.
AppendOrder_NoBump(items) ==
    items \o [k \in 1..Len(field_strings) |-> IdBase]

\* for _ in field_strings { fieldsOrder.push(id); id[0] += 1 } (275-283)
AppendOrder(items) ==
    items \o [k \in 1..Len(field_strings) |-> IdAfter(k - 1)]

\* YamlEmitter::dump writes "---\n" and the document; "\n---" is pushed (285-288).
EmitFileclass(doc) == File(<<Dash, Dash, Dash, LF, Body, LF, Dash, Dash, Dash>>, doc)

read_fileclass_yaml(file) ==
    LET cleaned == clean_yaml_md_file(file.bytes) IN
    IF ~cleaned.ok THEN Panic
    ELSE IF ~ValidUtf8(cleaned.bytes) THEN None
    ELSE LET doc == load_from_str(cleaned.bytes, file.yaml) IN
         IF doc.top # "hash" THEN None
         ELSE IF doc.fields.kind # "seq" THEN None
         ELSE IF \E k \in 1..Len(doc.fields.items) : ~NameOk(doc.fields.items[k]) THEN None
         ELSE IF doc.fieldsOrder.kind # "seq" THEN None
         ELSE Some([k \in 1..Len(doc.fields.items) |-> doc.fields.items[k].name],
                   EmitFileclass(YamlDoc("hash",
                        Node("seq", AppendFields(doc.fields.items)),
                        Node("seq", AppendOrder(doc.fieldsOrder.items)))))

\* --------------------------------------------------------------- JSON input

\* A serde_json::Value as far as the tool looks at it: its type, the string
\* of a Value::String, the elements of a Value::Array. Indexing a value by a
\* key it does not have yields Null.
JStr(s) == [t |-> "string", s |-> s, a |-> <<>>]
JNull == [t |-> "null", s |-> "", a |-> <<>>]
JNum == [t |-> "number", s |-> "", a |-> <<>>]
\* An array of objects; each element is given by the value under its
\* sub-field (`name`, or `display_name` for sessions).
JArr(elems) == [t |-> "array", s |-> "", a |-> elems]

\* One entry of `results`, given by the values the eleven projections of
\* the extraction loop find in it (128-151).
Entry(name, description, location, website, logo_url, work_auth, job_titles, job_types, majors, school_years, sessions) ==
    [employer_name |-> name, company_description |-> description,
     location_name |-> location, employer_website |-> website,
     employer_logo_url |-> logo_url,
     work_authorization_requirements |-> work_auth, job_titles |-> job_titles,
     job_types |-> job_types, majors |-> majors, school_years |-> school_years,
     attending_career_fair_sessions |-> sessions]

Ok(v) == [ok |-> TRUE, v |-> v, err |-> <<>>]
Err(msg) == [ok |-> FALSE, v |-> <<>>, err |-> msg]

\* let v2s = |v, err| match v { String(inner) => Ok(inner), _ => Err(..) } (117-122)
v2s(v, err) ==
    IF v.t = "string" THEN [ok |-> TRUE, v |-> v.s, err |-> <<>>]
    ELSE [ok |-> FALSE, v |-> "", err |-> <<"json missing field: ", err>>]

\* CollectStrings leaving out the elements without the string sub-field.
RECURSIVE CollectStrings_Skip(_, _)
CollectStrings_Skip(elems, err) ==
    IF elems = <<>> THEN Ok(<<>>)
    ELSE LET head == v2s(elems[1], err)
             rest == CollectStrings_Skip(Tail(elems), err)
         IN IF head.ok THEN Ok(<<head.v>> \o rest.v) ELSE rest

\* arr.iter().map(|entry| v2s(&entry[sub], err)).collect::<Result<Vec<_>, _>>()
\* stops at the first element that fails (137, 141, 145, 149).
RECURSIVE CollectStrings(_, _)
CollectStrings(elems, err) ==
    IF elems = <<>> THEN Ok(<<>>)
    ELSE LET head == v2s(elems[1], err) IN
         IF ~head.ok THEN Err(head.err)
         ELSE LET rest == CollectStrings(Tail(elems), err) IN
              IF ~rest.ok THEN rest ELSE Ok(<<head.v>> \o rest.v)

CompanyEntry(name, description, location, website, logo_url, work_authorization, job_titles, job_types, majors, school_years, attending_sessions) ==
    [name |-> name, description |-> description, location |-> location,
     website |-> website, logo_url |-> logo_url,
     work_authorization |-> work_authorization, job_titles |-> job_titles,
     job_types |-> job_types, majors |-> majors, school_years |-> school_years,
     attending_sessions |-> attending_sessions]

\* The body of the extraction loop for one entry (128-165): the seven scalars
\* fail at once, an array field that is no array fails at once, and the
\* element errors collected for the four arrays surface only where the
\* CompanyEntry is built.
ExtractEntry(e) ==
    LET name == v2s(e.employer_name, "name")
        description == v2s(e.company_description, "description")
        location == v2s(e.location_name, "location")
        website == v2s(e.employer_website, "website")
        logo_url == v2s(e.employer_logo_url, "logo_url")
        work_authorization == v2s(e.work_authorization_requirements, "work_auth")
        job_titles == v2s(e.job_titles, "job_titles")
        job_types == CollectStrings(e.job_types.a, "job_type")
        majors == CollectStrings(e.majors.a, "major")
        school_years == CollectStrings(e.school_years.a, "school_year")
        attending_sessions == CollectStrings(e.attending_career_fair_sessions.a, "session")
    IN
    IF ~name.ok THEN Err(name.err)
    ELSE IF ~description.ok THEN Err(description.err)
    ELSE IF ~location.ok THEN Err(location.err)
    ELSE IF ~website.ok THEN Err(website.err)
    ELSE IF ~logo_url.ok THEN Err(logo_url.err)
    ELSE IF ~work_authorization.ok THEN Err(work_authorization.err)
    ELSE IF ~job_titles.ok THEN Err(job_titles.err)
    ELSE IF e.job_types.t # "array" THEN Err(<<"json missing field: ", "job_types">>)
    ELSE IF e.majors.t # "array" THEN Err(<<"json missing field: ", "majors">>)
    ELSE IF e.school_years.t # "array" THEN Err(<<"json missing field: ", "school_years">>)
    ELSE IF e.attending_career_fair_sessions.t # "array"
         THEN Err(<<"json missing field: ", "sessions">>)
    ELSE IF ~job_types.ok THEN Err(job_types.err)
    ELSE IF ~majors.ok THEN Err(majors.err)
    ELSE IF ~school_years.ok THEN Err(school_years.err)
    ELSE IF ~attending_sessions.ok THEN Err(attending_sessions.err)
    ELSE Ok(CompanyEntry(name.v, description.v, location.v, website.v, logo_url.v,
                         work_authorization.v, job_titles.v, job_types.v, majors.v,
                         school_years.v, attending_sessions.v))

\* The input file: unreadable, not JSON, JSON whose `results` is no array,
\* or JSON with the array `results`.
InputFile(kind, results) == [kind |-> kind, results |-> results]

\* ------------------------------------------------------------------- CLI

NoneOpt == [some |-> FALSE, v |-> ""]
SomeOpt(v) == [some |-> TRUE, v |-> v]

CliArgs(input_path, output_path, template_path, verbose) ==
    [input_path |-> input_path, output_path |-> output_path,
     template_path |-> template_path, verbose |-> verbose]

\* The arguments that start with '-' (value.starts_with('-')).
DashArgs ==
    {"-h", "--help", "-v", "--verbose", "-i", "--input", "-t", "--template",
     "-o", "--output"}

RECURSIVE Position(_, _)
\* args.iter().position(|a| a \in flags): 1-based here, 0 for None
Position(args, flags) ==
    IF args = <<>> THEN 0
    ELSE IF args[1] \in flags THEN 1
    ELSE LET p == Position(Tail(args), flags) IN IF p = 0 THEN 0 ELSE p + 1

\* The match on the position of a flag and the argument after it (57-83).
FlagValue(args, flags) ==
    LET p == Position(args, flags) IN
    IF p = 0 THEN [tag |-> "absent", v |-> ""]
    ELSE IF p + 1 <= Len(args) /\ args[p + 1] \notin DashArgs
         THEN [tag |-> "value", v |-> args[p + 1]]
         ELSE [tag |-> "err", v |-> args[p]]

NoArgs == CliArgs("", NoneOpt, NoneOpt, FALSE)

parse_cli(args) ==
    LET is_help == (\E k \in 1..Len(args) : args[k] \in {"-h", "--help"}) \/ args = <<>>
        is_verbose == \E k \in 1..Len(args) : args[k] \in {"-v", "--verbose"}
        input == FlagValue(args, {"-i", "--input"})
        template == FlagValue(args, {"-t", "--template"})
        output == FlagValue(args, {"-o", "--output"})
        opt(f) == IF f.tag = "value" THEN SomeOpt(f.v) ELSE NoneOpt
    IN
    IF is_help THEN [tag |-> "help", args |-> NoArgs, err |-> <<>>]
    ELSE IF input.tag = "absent"
         THEN [tag |-> "err", args |-> NoArgs,
               err |-> <<"must supply input data: --input [path_to_input]">>]
    ELSE IF input.tag = "err"
         THEN [tag |-> "err", args |-> NoArgs, err |-> <<"expected a value for ", input.v>>]
    ELSE IF output.tag = "err"
         THEN [tag |-> "err", args |-> NoArgs, err |-> <<"expected a value for ", output.v>>]
    ELSE IF template.tag = "err"
         THEN [tag |-> "err", args |-> NoArgs, err |-> <<"expected a value for ", template.v>>]
    ELSE [tag |-> "ok", args |-> CliArgs(input.v, opt(output), opt(template), is_verbose),
          err |-> <<>>]

\* ------------------------------------------------------------- rendering

\* Join putting the separator after every element.
RECURSIVE Join_Trailing(_)
Join_Trailing(v) ==
    IF v = <<>> THEN <<>> ELSE Str(v[1]) \o <<", ">> \o Join_Trailing(Tail(v))

\* Vec<String>::join(", ")
RECURSIVE Join(_)
Join(v) ==
    IF v = <<>> THEN <<>>
    ELSE IF Len(v) = 1 THEN Str(v[1])
    ELSE Str(v[1]) \o <<", ">> \o Join(Tail(v))

\* for field in &user_fields { push_str(field); push_str(": \n") } (208-211)
RECURSIVE UserFieldLines(_)
UserFieldLines(fields) ==
    IF fields = <<>> THEN <<>>
    ELSE Str(fields[1]) \o <<": ", LF>> \o UserFieldLines(Tail(fields))

\* The text of one note (206-226).
RenderNote(company, fields) ==
    <<"---", LF, "fileClass: company", LF>>
    \o UserFieldLines(fields)
    \o <<"location: ">> \o Str(company.location) \o <<LF>>
    \o <<"majors: ">> \o Join(company.majors) \o <<LF>>
    \o <<"job_titles: ">> \o Str(company.job_titles) \o <<LF>>
    \o <<"job_types: ">> \o Join(company.job_types) \o <<LF>>
    \o <<"school_years: ">> \o Join(company.school_years) \o <<LF>>
    \o <<"international: ">> \o Str(company.work_authorization) \o <<LF>>
    \o <<"sessions: ">> \o Join(company.attending_sessions) \o <<LF>>
    \o <<"website: ">> \o Str(company.website) \o <<LF>>
    \o <<"---", LF, LF>>
    \o <<"<img src=\"">> \o Str(company.logo_url) \o <<"\" style=\"width: 80px;\">", LF, LF>>
    \o <<"### Description", LF, LF>> \o Str(company.description) \o <<LF>>

WarningLine ==
    "==This file failed to write, likely because of an issue with the name. If everything else looks fine then you can set the name yourself=="

\* What is pushed onto the text before the fallback write (233-234).
FallbackText(text, company) ==
    text \o <<WarningLine, LF, LF>> \o <<"**Company name:** ">> \o Str(company.name) \o <<LF>>

\* --------------------------------------------------------- the output tree

\* ErrorFile counting the companies from one.
ErrorFile_OneBased(i) == [kind |-> "error", name |-> "", index |-> i + 1]

\* companies/<name>.md and companies/error<i>.md
NoteFile(name) == [kind |-> "note", name |-> name, index |-> 0]
ErrorFile(i) == [kind |-> "error", name |-> "", index |-> i]

\* Names the file system refuses as a file name inside companies/.
IllegalNames == {"A/B"}

\* The output tree: whether its root exists, how much of the template was
\* copied into it ("none" | "partial" | "full"), what classes/company.md holds
\* ("none" | "template" | "merged"), whether companies/ exists, and the notes
\* in companies/ (file -> text).
Tree(root, copied, fileclass, companies_dir, notes) ==
    [root |-> root, copied |-> copied, fileclass |-> fileclass,
     companies_dir |-> companies_dir, notes |-> notes]

NoNotes == <<>>
FsBefore(preexists) == Tree(preexists, "none", "none", FALSE, NoNotes)

WriteRecord(i, file, text, ok) == [company |-> i, file |-> file, text |-> text, ok |-> ok]

\* ------------------------------------------------------ template files

GoodFrame == <<Dash, Dash, Dash, LF, Body, LF, Dash, Dash, Dash>>
GoodDoc ==
    YamlDoc("hash", Node("seq", <<Descriptor("ok", "status", <<122, 98, 99, 100, 101, 102>>)>>),
            Node("seq", <<<<122, 98, 99, 100, 101, 102>>>>))

\* Template files: every byte sequence up to MaxBytes holding one fixed body
\* at most once, and every body inside the usual "---" frame.
TemplateFiles ==
    {File(b, GoodDoc) : b \in {c \in SeqsUpTo(Byte, MaxBytes) :
                                  Len(SelectSeq(c, LAMBDA x : x = Body)) <= 1}}
    \cup {File(GoodFrame, y) : y \in YamlDocs}

NotRun == [tag |-> "notrun", field_names |-> <<>>, fileclass |-> File(<<>>, EmptyDoc)]

\* ------------------------------------------------------ main and real_main

Running == [status |-> "running", msg |-> <<>>]
ROk == [status |-> "ok", msg |-> <<>>]
RErr(msg) == [status |-> "err", msg |-> msg]
RPanic == [status |-> "panic", msg |-> <<>>]
RHelp == [status |-> "help", msg |-> <<>>]

Line(kind, text) == [kind |-> kind, text |-> text]

\* return Err(msg) from real_main
Return(r) ==
    /\ pc' = "returned"
    /\ result' = r

\* let cli_args = parse_cli()?; (102), with the early exit of --help (50-53)
ParseCli ==
    /\ pc = "parse_cli"
    /\ LET parsed == parse_cli(argv) IN
       IF parsed.tag = "help"
       THEN /\ pc' = "exited"
            /\ result' = RHelp
            /\ exit_code' = 0
            /\ stdout' = Append(stdout, Line("help", <<"This tool generates an obsidian vault based on career fair data">>))
            /\ UNCHANGED cli_args
       ELSE IF parsed.tag = "err"
       THEN /\ Return(RErr(parsed.err))
            /\ UNCHANGED <<cli_args, exit_code, stdout>>
       ELSE /\ cli_args' = parsed.args
            /\ pc' = "read_input"
            /\ UNCHANGED <<result, exit_code, stdout>>
    /\ UNCHANGED <<companies, idx, user_fields, new_fileclass, fs, writes>>
    /\ UNCHANGED <<schemaVars, inputVars>>

\* let input_data = fs::read(&cli_args.input_path)?; (104)
ReadInput ==
    /\ pc = "read_input"
    /\ IF input_file.kind = "unreadable"
       THEN Return(RErr(<<"io error: ", "cannot read input">>))
       ELSE pc' = "parse_json" /\ UNCHANGED result
    /\ UNCHANGED <<cli_args, companies, idx, user_fields, new_fileclass, fs, writes,
                   stdout, exit_code>>
    /\ UNCHANGED <<schemaVars, inputVars>>

\* serde_json::from_slice (106-109)
ParseJson ==
    /\ pc = "parse_json"
    /\ IF input_file.kind = "invalid"
       THEN Return(RErr(<<"input data is invalid json">>))
       ELSE pc' = "get_results" /\ UNCHANGED result
    /\ UNCHANGED <<cli_args, companies, idx, user_fields, new_fileclass, fs, writes,
                   stdout, exit_code>>
    /\ UNCHANGED <<schemaVars, inputVars>>

\* GetResults taking a `results` that is no array for an empty one.
GetResults_Lenient ==
    /\ pc = "get_results"
    /\ pc' = "extract"
    /\ companies' = <<>>
    /\ idx' = 0
    /\ UNCHANGED <<cli_args, user_fields, new_fileclass, fs, writes, stdout, result,
                   exit_code>>
    /\ UNCHANGED <<schemaVars, inputVars>>

\* match &json_data["results"] (111-114)
GetResults ==
    /\ pc = "get_results"
    /\ IF input_file.kind # "doc"
       THEN Return(RErr(<<"input data is an invalid format">>)) /\ UNCHANGED <<companies, idx>>
       ELSE /\ pc' = "extract"
            /\ companies' = <<>>
            /\ idx' = 0
            /\ UNCHANGED result
    /\ UNCHANGED <<cli_args, user_fields, new_fileclass, fs, writes, stdout, exit_code>>
    /\ UNCHANGED <<schemaVars, inputVars>>

\* One iteration of `for json_entry in json_entries` (127-166). An error
\* returns from real_main, which drops the companies collected so far.
ExtractStep ==
    /\ pc = "extract"
    /\ idx < Len(input_file.results)
    /\ LET r == ExtractEntry(input_file.results[idx + 1]) IN
       IF r.ok
       THEN /\ companies' = Append(companies, r.v)
            /\ idx' = idx + 1
            /\ UNCHANGED <<pc, result>>
       ELSE /\ Return(RErr(r.err))
            /\ companies' = <<>>
            /\ UNCHANGED idx
    /\ UNCHANGED <<cli_args, user_fields, new_fileclass, fs, writes, stdout, exit_code>>
    /\ UNCHANGED <<schemaVars, inputVars>>

\* The loop is over; if cli_args.verbose { println!(...) } (168-170)
ExtractDone ==
    /\ pc = "extract"
    /\ idx = Len(input_file.results)
    /\ pc' = "read_template"
    /\ idx' = 0
    /\ stdout' = IF cli_args.verbose
                 THEN Append(stdout, Line("info", <<"rendering data for {} companies">>))
                 ELSE stdout
    /\ UNCHANGED <<cli_args, companies, user_fields, new_fileclass, fs, writes, result,
                   exit_code>>
    /\ UNCHANGED <<schemaVars, inputVars>>

\* fs::read(template_path/classes/company.md) (172-180)
ReadTemplate ==
    /\ pc = "read_template"
    /\ IF ~template_file.readable
       THEN Return(RErr(<<"could not read template path: ", "io error">>))
       ELSE pc' = "merge_schema" /\ UNCHANGED result
    /\ UNCHANGED <<cli_args, companies, idx, user_fields, new_fileclass, fs, writes,
                   stdout, exit_code>>
    /\ UNCHANGED <<schemaVars, inputVars>>

\* match read_fileclass_yaml(&file_class_bytes) (182-185). A panic inside it
\* unwinds through main: the process ends with the panic exit status.
MergeSchema ==
    /\ pc = "merge_schema"
    /\ LET r == read_fileclass_yaml(template_file.file) IN
       IF r.tag = "panic"
       THEN /\ pc' = "exited"
            /\ result' = RPanic
            /\ exit_code' = 101
            /\ UNCHANGED <<user_fields, new_fileclass>>
       ELSE IF r.tag = "none"
       THEN /\ Return(RErr(<<"failed reading fileClass">>))
            /\ UNCHANGED <<user_fields, new_fileclass, exit_code>>
       ELSE /\ user_fields' = r.field_names
            /\ new_fileclass' = r.fileclass
            /\ pc' = "check_output"
            /\ UNCHANGED <<result, exit_code>>
    /\ UNCHANGED <<cli_args, companies, idx, fs, writes, stdout>>
    /\ UNCHANGED <<schemaVars, inputVars>>

\* CheckOutput going on to write (to a default place) without an output path.
CheckOutput_DefaultOut ==
    /\ pc = "check_output"
    /\ pc' = "copy_template"
    /\ UNCHANGED <<cli_args, companies, idx, user_fields, new_fileclass, fs, writes,
                   stdout, result, exit_code>>
    /\ UNCHANGED <<schemaVars, inputVars>>

\* let output_path = match cli_args.output_path { ... } (187-193)
CheckOutput ==
    /\ pc = "check_output"
    /\ IF cli_args.output_path.some
       THEN pc' = "copy_template" /\ UNCHANGED <<result, stdout>>
       ELSE /\ Return(ROk)
            /\ stdout' = Append(stdout, Line("info", <<"Exiting with no output">>))
    /\ UNCHANGED <<cli_args, companies, idx, user_fields, new_fileclass, fs, writes,
                   exit_code>>
    /\ UNCHANGED <<schemaVars, inputVars>>

\* copy_dir_recurse(template_path, output_path) (195-197, 312-323):
\* fs::create_dir fails when the output path exists (and may fail otherwise);
\* a later failure leaves the part of the tree copied so far.
CopyTemplate ==
    /\ pc = "copy_template"
    /\ \E outcome \in IF fs.root THEN {"nocreate"} ELSE {"nocreate", "partial", "full"} :
         \E partial_fileclass \in {"none", "template"} :
           IF outcome = "nocreate"
           THEN /\ Return(RErr(<<"failed copying template to output path: ", "io error">>))
                /\ UNCHANGED fs
           ELSE IF outcome = "partial"
           THEN /\ Return(RErr(<<"failed copying template to output path: ", "io error">>))
                /\ fs' = [fs EXCEPT !.root = TRUE, !.copied = "partial",
                                    !.fileclass = partial_fileclass]
           ELSE /\ pc' = "write_fileclass"
                /\ fs' = [fs EXCEPT !.root = TRUE, !.copied = "full", !.fileclass = "template"]
                /\ UNCHANGED result
    /\ UNCHANGED <<cli_args, companies, idx, user_fields, new_fileclass, writes,
                   stdout, exit_code>>
    /\ UNCHANGED <<schemaVars, inputVars>>

\* fs::write(output_path/classes/company.md, new_fileclass)?; (198)
WriteFileclass ==
    /\ pc = "write_fileclass"
    /\ \E ok \in BOOLEAN :
         IF ok
         THEN /\ fs' = [fs EXCEPT !.fileclass = "merged"]
              /\ pc' = "create_companies_dir"
              /\ UNCHANGED result
         ELSE /\ Return(RErr(<<"io error: ", "cannot write fileClass">>))
              /\ UNCHANGED fs
    /\ UNCHANGED <<cli_args, companies, idx, user_fields, new_fileclass, writes,
                   stdout, exit_code>>
    /\ UNCHANGED <<schemaVars, inputVars>>

\* fs::create_dir_all(&companies_dir)?; (200-201)
CreateCompaniesDir ==
    /\ pc = "create_companies_dir"
    /\ \E ok \in BOOLEAN :
         IF ok
         THEN /\ fs' = [fs EXCEPT !.companies_dir = TRUE]
              /\ pc' = "write_notes"
              /\ idx' = 0
              /\ UNCHANGED result
         ELSE /\ Return(RErr(<<"io error: ", "cannot create companies">>))
              /\ UNCHANGED <<fs, idx>>
    /\ UNCHANGED <<cli_args, companies, user_fields, new_fileclass, writes,
                   stdout, exit_code>>
    /\ UNCHANGED <<schemaVars, inputVars>>

\* An fs::write that succeeds creates or replaces the file.
WriteFile(notes, file, text) == (file :> text) @@ notes

\* One iteration of `for (i, company) in companies.iter().enumerate()`
\* (203-239): render, write companies/<name>.md, and on failure write
\* companies/error<i>.md with the warning appended.
WriteNote ==
    /\ pc = "write_notes"
    /\ idx < Len(companies)
    /\ LET company == companies[idx + 1]
           file_path == NoteFile(company.name)
           file_text == RenderNote(company, user_fields)
           alt_path == ErrorFile(idx)
           alt_text == FallbackText(file_text, company)
       IN
       \E primary_ok \in IF company.name \in IllegalNames THEN {FALSE} ELSE BOOLEAN :
         \E fallback_ok \in BOOLEAN :
           IF primary_ok
           THEN /\ fs' = [fs EXCEPT !.notes = WriteFile(@, file_path, file_text)]
                /\ writes' = Append(writes, WriteRecord(idx, file_path, file_text, TRUE))
                /\ idx' = idx + 1
                /\ UNCHANGED <<pc, result, stdout>>
           ELSE /\ stdout' = IF cli_args.verbose
                             THEN Append(stdout, Line("info", <<"Failed to write: {}. Instead writing: {}">>))
                             ELSE stdout
                /\ writes' = writes \o <<WriteRecord(idx, file_path, file_text, FALSE),
                                         WriteRecord(idx, alt_path, alt_text, fallback_ok)>>
                /\ IF fallback_ok
                   THEN /\ fs' = [fs EXCEPT !.notes = WriteFile(@, alt_path, alt_text)]
                        /\ idx' = idx + 1
                        /\ UNCHANGED <<pc, result>>
                   ELSE /\ Return(RErr(<<"unable to write company file">>))
                        /\ UNCHANGED <<fs, idx>>
    /\ UNCHANGED <<cli_args, companies, user_fields, new_fileclass, exit_code>>
    /\ UNCHANGED <<schemaVars, inputVars>>

\* Ok(()) at the end of real_main (241)
ReturnOk ==
    /\ pc = "write_notes"
    /\ idx = Len(companies)
    /\ Return(ROk)
    /\ UNCHANGED <<cli_args, companies, idx, user_fields, new_fileclass, fs, writes,
                   stdout, exit_code>>
    /\ UNCHANGED <<schemaVars, inputVars>>

\* main (93-98): an Err is printed with println!; main then returns, so the
\* process ends with the status of a main that returned normally.
Main ==
    /\ pc = "returned"
    /\ pc' = "exited"
    /\ stdout' = IF result.status = "err" THEN Append(stdout, Line("error", result.msg))
                 ELSE stdout
    /\ exit_code' = 0
    /\ UNCHANGED <<cli_args, companies, idx, user_fields, new_fileclass, fs, writes, result>>
    /\ UNCHANGED <<schemaVars, inputVars>>

\* ------------------------------------------------------------------ inputs

\* The entry of the end-to-end example, under a given employer name.
SimpleEntry(name) ==
    Entry(JStr(name), JStr("d"), JStr("NYC"), JStr("acme.com"), JStr("x.png"),
          JStr("none"), JStr("SWE"), JArr(<<JStr("Intern")>>), JArr(<<JStr("CS")>>),
          JArr(<<JStr("Junior")>>), JArr(<<JStr("Morning")>>))

\* Entries of a run: three employers, one of them with a name no file can
\* have, and an entry without location_name.
RunEntries ==
    {SimpleEntry(n) : n \in {"Acme", "Globex", "A/B"}}
    \cup {[SimpleEntry("Initech") EXCEPT !.location_name = JNull]}

RunInputs ==
    {InputFile(k, <<>>) : k \in {"unreadable", "invalid", "noresults"}}
    \cup {InputFile("doc", r) : r \in SeqsUpTo(RunEntries, MaxResults)}

TemplateFile(readable, file) == [readable |-> readable, file |-> file]

NoFieldsDoc == YamlDoc("hash", Node("seq", <<>>), Node("seq", <<>>))

\* classes/company.md of the template: unreadable, well-formed with one and
\* with no user field, without fieldsOrder, not UTF-8, and empty.
RunTemplates ==
    {TemplateFile(FALSE, File(<<>>, EmptyDoc)),
     TemplateFile(TRUE, File(GoodFrame, GoodDoc)),
     TemplateFile(TRUE, File(GoodFrame, NoFieldsDoc)),
     TemplateFile(TRUE, File(GoodFrame, YamlDoc("hash", Node("seq", <<>>), Node("absent", <<>>)))),
     TemplateFile(TRUE, File(<<Dash, Dash, Dash, LF, BadByte, Body, LF, Dash, Dash, Dash>>, GoodDoc)),
     TemplateFile(TRUE, File(<<>>, GoodDoc))}

Argvs ==
    {<<>>,
     <<"-i", "in.json", "-h">>,
     <<"-i", "in.json">>,
     <<"-i", "in.json", "-v">>,
     <<"-i", "in.json", "-o", "out">>,
     <<"--input", "in.json", "--output", "out", "--verbose">>,
     <<"-o", "out", "-t", "tpl", "-i", "in.json">>,
     <<"-o", "out">>,
     <<"-i">>,
     <<"-i", "-o", "out">>,
     <<"-i", "in.json", "-o">>,
     <<"-i", "in.json", "-t", "-v">>}

\* Entries of the extraction loop: the example entry, every field of it
\* replaced by another value, and entries with two fields wrong.
BaseEntry == SimpleEntry("Acme")
ScalarAlts == {JNull, JStr("Other")}
ArrayAlts ==
    {JNull, JArr(<<>>), JArr(<<JStr("a"), JStr("a")>>), JArr(<<JStr("b"), JStr("a")>>),
     JArr(<<JStr("a"), JNull>>)}
ExtractEntries ==
    {BaseEntry}
    \cup {[BaseEntry EXCEPT !.employer_name = v] : v \in ScalarAlts \cup {JNum}}
    \cup {[BaseEntry EXCEPT !.company_description = v] : v \in ScalarAlts}
    \cup {[BaseEntry EXCEPT !.location_name = v] : v \in ScalarAlts}
    \cup {[BaseEntry EXCEPT !.employer_website = v] : v \in ScalarAlts}
    \cup {[BaseEntry EXCEPT !.employer_logo_url = v] : v \in ScalarAlts}
    \cup {[BaseEntry EXCEPT !.work_authorization_requirements = v] : v \in ScalarAlts}
    \cup {[BaseEntry EXCEPT !.job_titles = v] : v \in ScalarAlts \cup {JArr(<<JStr("SWE")>>)}}
    \cup {[BaseEntry EXCEPT !.job_types = v] : v \in ArrayAlts \cup {JStr("Intern")}}
    \cup {[BaseEntry EXCEPT !.majors = v] : v \in ArrayAlts}
    \cup {[BaseEntry EXCEPT !.school_years = v] : v \in ArrayAlts}
    \cup {[BaseEntry EXCEPT !.attending_career_fair_sessions = v] : v \in ArrayAlts}
    \cup {[BaseEntry EXCEPT !.job_types = JArr(<<JNull>>), !.majors = JNull],
          [BaseEntry EXCEPT !.employer_name = JNull, !.location_name = JNull],
          [BaseEntry EXCEPT !.majors = JArr(<<JNum>>),
                            !.attending_career_fair_sessions = JArr(<<JNull>>)],
          [BaseEntry EXCEPT !.school_years = JArr(<<JNull>>),
                            !.attending_career_fair_sessions = JStr("Morning")]}

ExtractInputs == {InputFile("doc", r) : r \in SeqsUpTo(ExtractEntries, MaxEntries)}

\* Companies to render: every sequence field empty, single and repeated.
RenderCompanies ==
    {CompanyEntry(name, description, location, "acme.com", "x.png", "none", "SWE",
                  job_types, majors, school_years, sessions) :
        name \in {"Acme", "A/B"},
        description \in {"d", "first line\nsecond line"},
        location \in {"NYC", ""},
        job_types \in {<<>>, <<"Intern">>, <<"Intern", "Intern">>},
        majors \in {<<>>, <<"CS">>, <<"CS", "Math">>, <<"Math", "CS", "CS">>},
        school_years \in {<<>>, <<"Junior">>},
        sessions \in {<<>>, <<"Morning", "Noon">>}}

UserFieldNames == {"status", "notes"}

\* The entry a company is extracted from, and a template with given user
\* fields.
EntryOf(c) ==
    LET arr(v) == JArr([k \in 1..Len(v) |-> JStr(v[k])]) IN
    Entry(JStr(c.name), JStr(c.description), JStr(c.location), JStr(c.website),
          JStr(c.logo_url), JStr(c.work_authorization), JStr(c.job_titles),
          arr(c.job_types), arr(c.majors), arr(c.school_years), arr(c.attending_sessions))
TemplateOf(names) ==
    TemplateFile(TRUE, File(GoodFrame,
        YamlDoc("hash",
                Node("seq", [k \in 1..Len(names) |->
                                Descriptor("ok", names[k], <<122, 98, 99, 100, 101, 102>>)]),
                Node("seq", <<>>))))

\* --------------------------------------------------------- specifications

SchemaParked ==
    /\ tpl0 = File(<<>>, EmptyDoc)
    /\ tpl = File(<<>>, EmptyDoc)
    /\ merged = NotRun
    /\ merges = 0
    /\ spc = "idle"

RunParked ==
    /\ argv = <<>>
    /\ input_file = InputFile("unreadable", <<>>)
    /\ template_file = TemplateFile(FALSE, File(<<>>, EmptyDoc))
    /\ out_preexists = FALSE
    /\ pc = "idle"
    /\ cli_args = NoArgs
    /\ companies = <<>>
    /\ idx = 0
    /\ user_fields = <<>>
    /\ new_fileclass = File(<<>>, EmptyDoc)
    /\ fs = FsBefore(FALSE)
    /\ writes = <<>>
    /\ stdout = <<>>
    /\ result = Running
    /\ exit_code = -1

\* ---- Spec: one run of the program

Init ==
    /\ argv \in Argvs
    /\ input_file \in RunInputs
    /\ template_file \in RunTemplates
    /\ out_preexists \in BOOLEAN
    /\ pc = "parse_cli"
    /\ cli_args = NoArgs
    /\ companies = <<>>
    /\ idx = 0
    /\ user_fields = <<>>
    /\ new_fileclass = File(<<>>, EmptyDoc)
    /\ fs = FsBefore(out_preexists)
    /\ writes = <<>>
    /\ stdout = <<>>
    /\ result = Running
    /\ exit_code = -1
    /\ SchemaParked

Next ==
    \/ ParseCli
    \/ ReadInput
    \/ ParseJson
    \/ GetResults
    \/ ExtractStep
    \/ ExtractDone
    \/ ReadTemplate
    \/ MergeSchema
    \/ CheckOutput
    \/ CopyTemplate
    \/ WriteFileclass
    \/ CreateCompaniesDir
    \/ WriteNote
    \/ ReturnOk
    \/ Main

Spec == Init /\ [][Next]_vars

\* ---- SpecSchema: read_fileclass_yaml on bounded template files

SchemaInit ==
    /\ tpl0 \in TemplateFiles
    /\ tpl = tpl0
    /\ merged = NotRun
    /\ merges = 0
    /\ spc = "read"
    /\ RunParked

\* One call of read_fileclass_yaml on the current template file.
ReadFileclass ==
    /\ spc = "read"
    /\ merged' = read_fileclass_yaml(tpl)
    /\ merges' = IF merged'.tag = "some" THEN merges + 1 ELSE merges
    /\ spc' = "done"
    /\ UNCHANGED <<tpl0, tpl>>
    /\ UNCHANGED <<inputVars, runVars>>

\* The updated document written by one run is the template of the next.
Remerge ==
    /\ spc = "done"
    /\ merged.tag = "some"
    /\ merges < MaxMerges
    /\ tpl' = merged.fileclass
    /\ merged' = NotRun
    /\ spc' = "read"
    /\ UNCHANGED <<tpl0, merges>>
    /\ UNCHANGED <<inputVars, runVars>>

SchemaNext == ReadFileclass \/ Remerge

SpecSchema == SchemaInit /\ [][SchemaNext]_vars

\* ---- SpecExtract: the extraction loop on bounded documents

ExtractInit ==
    /\ argv = <<"-i", "in.json", "-v">>
    /\ input_file \in ExtractInputs
    /\ template_file = TemplateFile(TRUE, File(GoodFrame, GoodDoc))
    /\ out_preexists = FALSE
    /\ pc = "extract"
    /\ cli_args = parse_cli(argv).args
    /\ companies = <<>>
    /\ idx = 0
    /\ user_fields = <<>>
    /\ new_fileclass = File(<<>>, EmptyDoc)
    /\ fs = FsBefore(out_preexists)
    /\ writes = <<>>
    /\ stdout = <<>>
    /\ result = Running
    /\ exit_code = -1
    /\ SchemaParked

ExtractNext == ExtractStep \/ ExtractDone

SpecExtract == ExtractInit /\ [][ExtractNext]_vars

\* ---- SpecRender: rendering and writing the note of one company

RenderInit ==
    /\ argv = <<"-i", "in.json", "-o", "out">>
    /\ \E c \in RenderCompanies :
         /\ input_file = InputFile("doc", <<EntryOf(c)>>)
         /\ companies = <<c>>
    /\ \E names \in SeqsUpTo(UserFieldNames, MaxUserFields) :
         /\ template_file = TemplateOf(names)
         /\ user_fields = names
    /\ new_fileclass = read_fileclass_yaml(template_file.file).fileclass
    /\ out_preexists = FALSE
    /\ pc = "write_notes"
    /\ cli_args = parse_cli(argv).args
    /\ idx = 0
    /\ fs = Tree(TRUE, "full", "merged", TRUE, NoNotes)
    /\ writes = <<>>
    /\ stdout = <<>>
    /\ result = Running
    /\ exit_code = -1
    /\ SchemaParked

RenderNext == WriteNote \/ ReturnOk

SpecRender == RenderInit /\ [][RenderNext]_vars

\* ------------------------------------------------------------- properties

\* ---- Schema merger (SpecSchema)

IdsOf(items) == [k \in 1..Len(items) |-> items[k].id]

\* C5: a successful merge of a document with n fields and m fieldsOrder
\* entries returns the names of the n fields in order, and a document whose
\* fields are the n old ones followed by eight descriptors named location,
\* majors, job_titles, job_types, school_years, international, sessions,
\* website (type "Input", no options, empty path), and whose fieldsOrder is
\* the m old entries followed by the ids of the eight, abcdef .. hbcdef; so
\* the k-th merge in a row leaves n + 8k fields.
C5_MergeAppendsEight ==
    (spc = "done" /\ merged.tag = "some") =>
        LET inF == tpl.yaml.fields.items
            inO == tpl.yaml.fieldsOrder.items
            outF == merged.fileclass.yaml.fields.items
            outO == merged.fileclass.yaml.fieldsOrder.items
            n == Len(inF)
            m == Len(inO)
            fixed == <<"location", "majors", "job_titles", "job_types", "school_years",
                       "international", "sessions", "website">>
        IN
        /\ Len(merged.field_names) = n
        /\ \A k \in 1..n : merged.field_names[k] = inF[k].name
        /\ Len(outF) = n + 8
        /\ SubSeq(outF, 1, n) = inF
        /\ \A k \in 1..8 :
              /\ outF[n + k].name = fixed[k]
              /\ outF[n + k].type = "Input"
              /\ outF[n + k].options = <<>>
              /\ outF[n + k].path = ""
              /\ outF[n + k].id = <<96 + k, 98, 99, 100, 101, 102>>
        /\ Len(outO) = m + 8
        /\ SubSeq(outO, 1, m) = inO
        /\ \A k \in 1..8 : outO[m + k] = outF[n + k].id
        /\ Len(outF) = Len(tpl0.yaml.fields.items) + 8 * merges

\* A second merge in a row has run on a template that already had a field
\* named location: 1 + 16 fields.
C5_Witness ==
    /\ spc = "done"
    /\ merged.tag = "some"
    /\ merges = 2
    /\ Len(tpl0.yaml.fields.items) = 1
    /\ tpl0.yaml.fields.items[1].name = "location"
    /\ Len(merged.fileclass.yaml.fields.items) = 17

\* C6: whatever the bytes of classes/company.md, read_fileclass_yaml returns
\* Some(..) or None; stripping the front matter never panics.
C6_CleanNeverPanics ==
    spc = "done" => merged.tag \in {"some", "none"}

\* C7: after a successful merge of a template whose ids are pairwise distinct
\* (read in the claim's favour: in fields and in fieldsOrder alike, with
\* fieldsOrder listing just the ids of the descriptors), the ids of all
\* descriptors of fields are pairwise distinct and fieldsOrder holds no id
\* twice.
C7_IdsUnique ==
    (/\ spc = "done"
     /\ merged.tag = "some"
     /\ NoDup(IdsOf(tpl.yaml.fields.items))
     /\ NoDup(tpl.yaml.fieldsOrder.items)
     /\ Range(tpl.yaml.fieldsOrder.items) = Range(IdsOf(tpl.yaml.fields.items)))
    => /\ NoDup(IdsOf(merged.fileclass.yaml.fields.items))
       /\ NoDup(merged.fileclass.yaml.fieldsOrder.items)

\* ---- One run (Spec)

\* An entry as the spec requires it: seven string scalars, four arrays whose
\* elements all carry the string sub-field.
StringsOnly(v) == v.t = "array" /\ \A k \in 1..Len(v.a) : v.a[k].t = "string"
WellFormed(e) ==
    /\ e.employer_name.t = "string"
    /\ e.company_description.t = "string"
    /\ e.location_name.t = "string"
    /\ e.employer_website.t = "string"
    /\ e.employer_logo_url.t = "string"
    /\ e.work_authorization_requirements.t = "string"
    /\ e.job_titles.t = "string"
    /\ StringsOnly(e.job_types)
    /\ StringsOnly(e.majors)
    /\ StringsOnly(e.school_years)
    /\ StringsOnly(e.attending_career_fair_sessions)

ArgsOk == parse_cli(argv).tag = "ok"
OutputGiven == ArgsOk /\ parse_cli(argv).args.output_path.some
InputValid ==
    /\ input_file.kind = "doc"
    /\ \A k \in 1..Len(input_file.results) : WellFormed(input_file.results[k])
SchemaMerges ==
    /\ template_file.readable
    /\ read_fileclass_yaml(template_file.file).tag = "some"
Untouched == fs = FsBefore(out_preexists) /\ writes = <<>>
Ended == pc = "exited"

\* C1: the output tree is touched only once the input is parsed, every entry
\* is extracted and the schema is merged; a run whose input or template fails
\* any of these ends without success and with the output tree as it was.
C1_ValidateBeforeOutput ==
    /\ ~Untouched =>
          /\ InputValid
          /\ SchemaMerges
          /\ Len(companies) = Len(input_file.results)
          /\ new_fileclass = read_fileclass_yaml(template_file.file).fileclass
          /\ pc \in {"copy_template", "write_fileclass", "create_companies_dir",
                     "write_notes", "returned", "exited"}
    /\ (Ended /\ ArgsOk /\ ~(InputValid /\ SchemaMerges)) =>
          /\ result.status \in {"err", "panic"}
          /\ Untouched

\* An output path is given, the second of two entries is malformed, and the
\* run has ended in an error with nothing written.
C1_Witness ==
    /\ Ended
    /\ OutputGiven
    /\ ~out_preexists
    /\ input_file.kind = "doc"
    /\ Len(input_file.results) = 2
    /\ WellFormed(input_file.results[1])
    /\ ~WellFormed(input_file.results[2])
    /\ result.status = "err"
    /\ Untouched

\* C2: a run with an output path that ends successfully leaves as many note
\* files in companies/ as `results` has entries.
C2_OneFilePerEntry ==
    (Ended /\ OutputGiven /\ result.status = "ok") =>
        Cardinality(DOMAIN fs.notes) = Len(input_file.results)

\* C3: a run that fails prints one message and ends with a non-zero exit
\* status; only a successful run ends with status zero.
C3_FailureExitsNonZero ==
    Ended =>
        /\ (exit_code = 0) <=> (result.status \in {"ok", "help"})
        /\ result.status = "err" =>
              Len(SelectSeq(stdout, LAMBDA l : l.kind = "error")) = 1

\* C4: the first write attempted for company i is companies/<name>.md. If
\* it succeeds, the next write (if any) is the primary write of company i+1.
\* If it fails, the next write is companies/error<i>.md with the rendered
\* note, the warning line and the company name; when that succeeds the file
\* is there and the next write (if any) is for company i+1; when it fails it
\* is the last write and the run returns "unable to write company file".
\* Every company passed has exactly one successful write.
C4_FallbackWrite ==
    /\ \A k \in 1..Len(writes) :
          LET w == writes[k]
              c == companies[w.company + 1]
              last == k = Len(writes)
              nextIsPrimaryOfNext ==
                  ~last => /\ writes[k + 1].file.kind = "note"
                           /\ writes[k + 1].company = w.company + 1
          IN
          /\ k = 1 => (w.company = 0 /\ w.file.kind = "note")
          /\ w.file.kind = "note" =>
                /\ w.file.name = c.name
                /\ w.ok => nextIsPrimaryOfNext
                /\ ~w.ok =>
                      /\ ~last
                      /\ writes[k + 1].company = w.company
                      /\ writes[k + 1].file.kind = "error"
                      /\ writes[k + 1].file.index = w.company
                      /\ writes[k + 1].text =
                            w.text \o <<WarningLine, "\n", "\n", "**Company name:** ", c.name, "\n">>
          /\ w.file.kind = "error" =>
                /\ w.ok => /\ w.file \in DOMAIN fs.notes
                           /\ fs.notes[w.file] = w.text
                           /\ nextIsPrimaryOfNext
                /\ ~w.ok => /\ last
                            /\ pc \in {"returned", "exited"}
                            /\ result = RErr(<<"unable to write company file">>)
    /\ LET passed == IF pc = "write_notes" THEN idx
                      ELSE IF OutputGiven /\ result.status = "ok" THEN Len(companies)
                      ELSE 0
       IN \A i \in 0..(passed - 1) :
              Cardinality({k \in 1..Len(writes) : writes[k].company = i /\ writes[k].ok}) = 1

\* The primary write of company 0 failed, error0.md was written, and the run
\* went on to company 1.
C4_Witness ==
    /\ Len(writes) >= 3
    /\ ~writes[1].ok
    /\ writes[2].ok
    /\ writes[2].file.kind = "error"
    /\ writes[3].company = 1
    /\ companies[1].name = "A/B"

StringsOf(v) == [k \in 1..Len(v.a) |-> v.a[k].s]

\* The company is built from the entry, field by field.
BuiltFrom(c, e) ==
    /\ c.name = e.employer_name.s
    /\ c.description = e.company_description.s
    /\ c.location = e.location_name.s
    /\ c.website = e.employer_website.s
    /\ c.logo_url = e.employer_logo_url.s
    /\ c.work_authorization = e.work_authorization_requirements.s
    /\ c.job_titles = e.job_titles.s
    /\ c.job_types = StringsOf(e.job_types)
    /\ c.majors = StringsOf(e.majors)
    /\ c.school_years = StringsOf(e.school_years)
    /\ c.attending_sessions = StringsOf(e.attending_career_fair_sessions)

BadElement(v) == v.t = "array" /\ \E k \in 1..Len(v.a) : v.a[k].t # "string"

\* The logical field a message names is missing or mistyped in the entry.
NamesDefect(msg, e) ==
    /\ Len(msg) = 2
    /\ msg[1] = "json missing field: "
    /\ LET f == msg[2] IN
       \/ f = "name" /\ e.employer_name.t # "string"
       \/ f = "description" /\ e.company_description.t # "string"
       \/ f = "location" /\ e.location_name.t # "string"
       \/ f = "website" /\ e.employer_website.t # "string"
       \/ f = "logo_url" /\ e.employer_logo_url.t # "string"
       \/ f = "work_auth" /\ e.work_authorization_requirements.t # "string"
       \/ f = "job_titles" /\ e.job_titles.t # "string"
       \/ f = "job_types" /\ e.job_types.t # "array"
       \/ f = "majors" /\ e.majors.t # "array"
       \/ f = "school_years" /\ e.school_years.t # "array"
       \/ f = "sessions" /\ e.attending_career_fair_sessions.t # "array"
       \/ f = "job_type" /\ BadElement(e.job_types)
       \/ f = "major" /\ BadElement(e.majors)
       \/ f = "school_year" /\ BadElement(e.school_years)
       \/ f = "session" /\ BadElement(e.attending_career_fair_sessions)

FirstMalformed ==
    CHOOSE k \in 1..Len(input_file.results) :
        /\ ~WellFormed(input_file.results[k])
        /\ \A j \in 1..(k - 1) : WellFormed(input_file.results[j])

\* C8: when every entry is well formed, extraction yields one Company per
\* entry, the Nth built from the Nth entry with the sequence fields in source
\* order and duplicates kept; otherwise it yields no Company and an error
\* naming a field that is missing or mistyped in the first malformed entry.
C8_Extraction ==
    /\ \A n \in 1..Len(companies) : BuiltFrom(companies[n], input_file.results[n])
    /\ pc = "read_template" =>
          /\ InputValid
          /\ Len(companies) = Len(input_file.results)
    /\ pc = "returned" =>
          /\ ~InputValid
          /\ companies = <<>>
          /\ result.status = "err"
          /\ NamesDefect(result.msg, input_file.results[FirstMalformed])
    /\ (pc = "extract" /\ idx < Len(input_file.results)) =>
          \A j \in 1..idx : WellFormed(input_file.results[j])

\* The second entry has a bad element in job_types and no array under majors:
\* the error names majors, and nothing is left of the first company.
C8_Witness ==
    /\ pc = "returned"
    /\ Len(input_file.results) = 2
    /\ WellFormed(input_file.results[1])
    /\ BadElement(input_file.results[2].job_types)
    /\ input_file.results[2].majors.t # "array"
    /\ result.msg = <<"json missing field: ", "majors">>
    /\ companies = <<>>

\* ---- Rendering (SpecRender)

\* The lines of a text: the pieces between line breaks; the last element is
\* what follows the last line break.
RECURSIVE SplitLines(_, _)
SplitLines(text, line) ==
    IF text = <<>> THEN <<line>>
    ELSE IF text[1] = "\n" THEN <<line>> \o SplitLines(Tail(text), <<>>)
    ELSE SplitLines(Tail(text), Append(line, text[1]))

\* "key: " followed by a value, the value left out when it is empty.
KeyValue(key, value) == IF value = "" THEN <<key>> ELSE <<key, value>>
\* The elements with ", " between them.
Joined(v) ==
    [k \in 1..(2 * Len(v) - 1) |-> IF k % 2 = 1 THEN v[(k + 1) \div 2] ELSE ", "]

\* C10: the note is the line ---, the line fileClass: company, one line
\* "<field>: " per user field in order, the eight lines location, majors,
\* job_titles, job_types, school_years, international, sessions, website,
\* the line ---, then the logo line and the Description section; a sequence
\* field is its elements joined by ", ", and an empty one leaves the line
\* with an empty value.
C10_NoteLayout ==
    \A k \in 1..Len(writes) :
        (writes[k].file.kind = "note") =>
            LET c == companies[writes[k].company + 1]
                u == Len(user_fields)
                lines == SplitLines(writes[k].text, <<>>)
            IN
            /\ Len(lines) = u + 18
            /\ lines[1] = <<"---">>
            /\ lines[2] = <<"fileClass: company">>
            /\ \A j \in 1..u : lines[2 + j] = <<user_fields[j], ": ">>
            /\ lines[u + 3] = KeyValue("location: ", c.location)
            /\ lines[u + 4] = <<"majors: ">> \o Joined(c.majors)
            /\ lines[u + 5] = KeyValue("job_titles: ", c.job_titles)
            /\ lines[u + 6] = <<"job_types: ">> \o Joined(c.job_types)
            /\ lines[u + 7] = <<"school_years: ">> \o Joined(c.school_years)
            /\ lines[u + 8] = KeyValue("international: ", c.work_authorization)
            /\ lines[u + 9] = <<"sessions: ">> \o Joined(c.attending_sessions)
            /\ lines[u + 10] = KeyValue("website: ", c.website)
            /\ lines[u + 11] = <<"---">>
            /\ lines[u + 12] = <<>>
            /\ lines[u + 13] = <<"<img src=\"", c.logo_url, "\" style=\"width: 80px;\">">>
            /\ lines[u + 14] = <<>>
            /\ lines[u + 15] = <<"### Description">>
            /\ lines[u + 16] = <<>>
            /\ lines[u + 17] = <<c.description>>
            /\ lines[u + 18] = <<>>

\* A note was written for a company without majors, with a repeated job
\* type, under two user fields.
C10_Witness ==
    /\ Len(writes) >= 1
    /\ writes[1].ok
    /\ Len(user_fields) = 2
    /\ companies[1].majors = <<>>
    /\ companies[1].job_types = <<"Intern", "Intern">>
    /\ companies[1].attending_sessions = <<"Morning", "Noon">>

====
